---- MODULE Spec2Model ----
(***************************************************************************)
(* Model of the dinner picker: the CSV catalog parser of lib/menus.ts, the *)
(* decision functions of lib/decision.ts and the DinnerApp component that  *)
(* calls them.                                                             *)
(*                                                                         *)
(* Text is modelled as a sequence of UTF-16 code units, the unit that the  *)
(* source's string indexing, charCodeAt and length work on.                *)
(***************************************************************************)
EXTENDS Integers, Sequences, FiniteSets

\* ------------------------------------------------------------------ text

Comma == 44
Quote == 34
Tab == 9
LF == 10
CR == 13

\* The other code units of the inputs: a, b, x and the space.
InputChars == <<97, 98, 120, 32>>
ChA == InputChars[1]
ChB == InputChars[2]
ChX == InputChars[3]
Space == InputChars[4]

\* The value of a destructured column that does not exist (cols[k] past the
\* end); no text contains the code unit -1.
Undefined == <<-1>>

\* The code units String.prototype.trim removes (WhiteSpace and
\* LineTerminator of ECMAScript).
IsWhiteSpace(c) ==
    c \in ({9, 10, 11, 12, 13, 32, 160, 5760, 8232, 8233, 8239, 8287, 12288, 65279}
            \cup (8192 .. 8202))

\* s.slice(from, to) with 0-based from (inclusive) and to (exclusive).
Slice(s, from, to) == [k \in 1 .. (to - from) |-> s[from + k]]

RECURSIVE TrimStart(_)
TrimStart(s) ==
    IF s # <<>> /\ IsWhiteSpace(Head(s)) THEN TrimStart(Tail(s)) ELSE s

RECURSIVE TrimEnd(_)
TrimEnd(s) ==
    IF s # <<>> /\ IsWhiteSpace(s[Len(s)])
    THEN TrimEnd(SubSeq(s, 1, Len(s) - 1))
    ELSE s

\* s.trim()
Trim(s) == TrimEnd(TrimStart(s))

\* xs.map(f)
MapTrim(xs) == [k \in 1 .. Len(xs) |-> Trim(xs[k])]

\* line.indexOf(",", from): the 0-based index of the first comma at or after
\* from, or -1.
RECURSIVE IndexOfComma(_, _)
IndexOfComma(line, from) ==
    IF from >= Len(line) THEN -1
    ELSE IF line[from + 1] = Comma THEN from
    ELSE IndexOfComma(line, from + 1)

\* raw.split(/\r?\n/): every LF ends a line, and one CR right before it
\* belongs to the separator.
RECURSIVE SplitFrom(_, _, _)
SplitFrom(raw, k, cur) ==
    IF k > Len(raw) THEN <<cur>>
    ELSE IF raw[k] = LF THEN <<cur>> \o SplitFrom(raw, k + 1, <<>>)
    ELSE IF raw[k] = CR /\ k < Len(raw) /\ raw[k + 1] = LF
         THEN <<cur>> \o SplitFrom(raw, k + 2, <<>>)
    ELSE SplitFrom(raw, k + 1, Append(cur, raw[k]))

SplitLines(raw) == SplitFrom(raw, 1, <<>>)

\* ------------------------------------------------------------------ parseCSVLine

\* The inner loop of a quoted field, entered with i just past the opening
\* quote: returns the index after the field and the value read.
RECURSIVE QuotedField(_, _, _)
QuotedField(line, i, value) ==
    IF i >= Len(line) THEN [i |-> i, value |-> value]
    ELSE IF line[i + 1] = Quote
         THEN IF i + 1 < Len(line) /\ line[i + 2] = Quote
              THEN QuotedField(line, i + 2, Append(value, Quote))
              ELSE [i |-> i + 1, value |-> value]
    ELSE QuotedField(line, i + 1, Append(value, line[i + 1]))

\* The outer loop, with i the 0-based index of the source.
RECURSIVE CSVLoop(_, _, _)
CSVLoop(line, i, fields) ==
    IF i > Len(line) THEN fields
    ELSE IF i = Len(line) THEN Append(fields, <<>>)
    ELSE IF line[i + 1] = Quote
         THEN LET q == QuotedField(line, i + 1, <<>>)
                  j == IF q.i < Len(line) /\ line[q.i + 1] = Comma
                       THEN q.i + 1 ELSE q.i
              IN  CSVLoop(line, j, Append(fields, q.value))
    ELSE LET nextComma == IndexOfComma(line, i)
         IN  IF nextComma = -1
             THEN Append(fields, Slice(line, i, Len(line)))
             ELSE CSVLoop(line, nextComma + 1,
                          Append(fields, Slice(line, i, nextComma)))

parseCSVLine(line) == CSVLoop(line, 0, <<>>)

\* ------------------------------------------------------------------ stableId

\* A 32-bit integer of the source is kept as its two 16-bit halves <<hi, lo>>
\* (its bit pattern; the sign JavaScript gives it does not matter to the bit
\* operations applied).
W16 == 65536

RECURSIVE XorBits(_, _, _)
XorBits(a, b, n) ==
    IF n = 0 THEN 0
    ELSE ((a + b) % 2) + 2 * XorBits(a \div 2, b \div 2, n - 1)

\* x ^ y
Xor32(x, y) == <<XorBits(x[1], y[1], 16), XorBits(x[2], y[2], 16)>>

\* The low 16 bits and the bits above them of the product of two 16-bit
\* numbers, computed in pieces below 2^31.
MulLo16(a, b) == (((a * (b \div 256)) % 256) * 256 + a * (b % 256)) % W16
MulHi16(a, b) == (a * (b \div 256) + ((a * (b % 256)) \div 256)) \div 256

\* Math.imul(x, y): the low 32 bits of the product.
imul(x, y) ==
    <<(MulHi16(x[2], y[2]) + MulLo16(x[1], y[2]) + MulLo16(x[2], y[1])) % W16,
      MulLo16(x[2], y[2])>>

\* x >>> 16 and x >>> 13
Shr16(x) == <<0, x[1]>>
Shr13(x) == <<x[1] \div 8192, ((x[1] % 8192) * 8 + x[2] \div 8192) % W16>>

HashSeed1 == <<57005, 48879>>
HashSeed2 == <<16838, 52823>>
HashMul1 == <<40503, 31153>>
HashMul2 == <<24373, 25749>>
HashMix1 == <<34283, 51819>>
HashMix2 == <<49842, 44597>>

\* The loop over the code units of str, from the pair h = <<h1, h2>>. The
\* test on n makes the two assignments of an iteration happen before the
\* next iteration starts, as they do in the source; it is always true.
RECURSIVE HashLoop(_, _, _)
HashLoop(str, k, h) ==
    IF k > Len(str) THEN h
    ELSE LET n == <<imul(Xor32(h[1], <<0, str[k]>>), HashMul1),
                    imul(Xor32(h[2], <<0, str[k]>>), HashMul2)>>
         IN  IF n[1][1] >= 0 THEN HashLoop(str, k + 1, n) ELSE n

\* The final mixing of h1 and h2.
HashMix(h) ==
    LET a1 == imul(Xor32(h[1], Shr16(h[1])), HashMix1)
        b1 == Xor32(a1, imul(Xor32(h[2], Shr13(h[2])), HashMix2))
        a2 == imul(Xor32(h[2], Shr16(h[2])), HashMix1)
        b2 == Xor32(a2, imul(Xor32(b1, Shr13(b1)), HashMix2))
    IN  <<b1, b2>>

\* 4294967296 * (2097151 & h2) + (h1 >>> 0), as base-65536 digits, most
\* significant first.
Combined(h) == <<h[2][1] % 32, h[2][2], h[1][1], h[1][2]>>

\* One long division of a base-65536 number by 36: quotient digits and
\* remainder.
RECURSIVE DivMod36(_, _, _, _)
DivMod36(n, k, rem, q) ==
    IF k > Len(n) THEN [q |-> q, r |-> rem]
    ELSE LET cur == rem * W16 + n[k]
         IN  DivMod36(n, k + 1, cur % 36, Append(q, cur \div 36))

IsZero(n) == \A k \in 1 .. Len(n) : n[k] = 0

\* The code unit of a base-36 digit: 0-9, a-z.
Digit36(d) == IF d < 10 THEN 48 + d ELSE 87 + d

\* n.toString(36)
RECURSIVE ToString36(_)
ToString36(n) ==
    LET d == DivMod36(n, 1, 0, <<>>)
    IN  IF IsZero(d.q) THEN <<Digit36(d.r)>>
        ELSE Append(ToString36(d.q), Digit36(d.r))

\* s.padStart(width, "0")
RECURSIVE PadStart(_, _)
PadStart(s, width) == IF Len(s) >= width THEN s ELSE PadStart(<<48>> \o s, width)

IdWidth == 11

\* `${name}\t${mainGenre}\t${carb}`
IdKey(name, mainGenre, carb) == name \o <<Tab>> \o mainGenre \o <<Tab>> \o carb

stableId(name, mainGenre, carb) ==
    PadStart(ToString36(Combined(HashMix(
        HashLoop(IdKey(name, mainGenre, carb), 1, <<HashSeed1, HashSeed2>>)))),
        IdWidth)

\* ------------------------------------------------------------------ vocabulary

Washoku == <<21644, 39135>>
Yoshoku == <<27915, 39135>>
Chuka == <<20013, 33775>>
Sonota == <<12381, 12398, 20182>>
Dessert == <<12487, 12470, 12540, 12488>>
Rice == <<31859>>
Noodle == <<40634>>
Either == <<12393, 12385, 12425, 12391, 12418, 12394, 12356>>

MAIN_GENRES == <<Washoku, Yoshoku, Chuka, Sonota, Dessert>>
CARBS == <<Rice, Noodle, Either>>

\* xs.includes(v)
Includes(xs, v) == \E k \in 1 .. Len(xs) : xs[k] = v

isMainGenre(v) == Includes(MAIN_GENRES, v)
isCarb(v) == Includes(CARBS, v)

TxtName == <<110, 97, 109, 101>>
TxtMainGenre == <<109, 97, 105, 110, 71, 101, 110, 114, 101>>
TxtCarb == <<99, 97, 114, 98>>

expectedHeader == <<TxtName, TxtMainGenre, TxtCarb>>

\* cols[k] of a 0-based destructuring: undefined past the end.
Col(cols, k) == IF k < Len(cols) THEN cols[k + 1] ELSE Undefined

\* v ?? ""
OrEmpty(v) == IF v = Undefined THEN <<>> ELSE v

\* IsFalsy true of undefined only.
IsFalsyUndefinedOnly(v) == v = Undefined

\* !v for a string or undefined
IsFalsy(v) == v = Undefined \/ v = <<>>

\* lines.findIndex((l) => l.trim() !== ""), 0-based, or -1.
RECURSIVE FindNonBlank(_, _)
FindNonBlank(ls, k) ==
    IF k >= Len(ls) THEN -1
    ELSE IF Trim(ls[k + 1]) # <<>> THEN k
    ELSE FindNonBlank(ls, k + 1)

\* HeaderMismatch demanding exactly the three fields.
HeaderMismatchExact(header) ==
    \/ Len(header) # 3
    \/ ~ (\A k \in 0 .. 2 : header[k + 1] = <<TxtName, TxtMainGenre, TxtCarb>>[k + 1])

\* header.length < expectedHeader.length ||
\*   !expectedHeader.every((h, i) => header[i] === h)
HeaderMismatch(header) ==
    \/ Len(header) < Len(expectedHeader)
    \/ ~ (\A k \in 0 .. Len(expectedHeader) - 1 :
              Col(header, k) = expectedHeader[k + 1])

\* RowErrors stopping at the first violation.
RowErrorsFirstOnly(mainGenre, carb) ==
    IF ~ Includes(<<Washoku, Yoshoku, Chuka, Sonota, Dessert>>,
                  IF mainGenre = Undefined THEN <<>> ELSE mainGenre)
    THEN <<[field |-> "mainGenre", value |-> mainGenre]>>
    ELSE IF ~ Includes(<<Rice, Noodle, Either>>,
                       IF carb = Undefined THEN <<>> ELSE carb)
    THEN <<[field |-> "carb", value |-> carb]>>
    ELSE <<>>

\* The violations of one row, in the order the source pushes them; each
\* stands for the message naming the field and the value found.
RowErrors(mainGenre, carb) ==
    (IF ~ isMainGenre(OrEmpty(mainGenre))
     THEN <<[field |-> "mainGenre", value |-> mainGenre]>> ELSE <<>>)
    \o
    (IF ~ isCarb(OrEmpty(carb))
     THEN <<[field |-> "carb", value |-> carb]>> ELSE <<>>)

\* No menu: the null of `Menu | null`.
NoMenu == [id |-> <<>>, name |-> <<>>, mainGenre |-> <<>>, carb |-> <<>>]

\* What an index past the end of an array reads.
UndefinedMenu ==
    [id |-> Undefined, name |-> Undefined, mainGenre |-> Undefined,
     carb |-> Undefined]

\* ------------------------------------------------------------------ inputs

MaxLines == 3
MaxRows == 2
MaxLineLen == 6
RandRes == 4

\* xs.join(sep)
RECURSIVE Join(_, _)
Join(xs, sep) ==
    IF xs = <<>> THEN <<>>
    ELSE IF Len(xs) = 1 THEN xs[1]
    ELSE xs[1] \o sep \o Join(Tail(xs), sep)

Fields3(a, b, c) == Join(<<a, b, c>>, <<Comma>>)

PlainHeader == Fields3(TxtName, TxtMainGenre, TxtCarb)

\* name,mainGenre,carb; the same with blanks and a fourth field; too few
\* fields; wrong order.
PoolHeaders ==
    { PlainHeader,
      <<Space>> \o TxtName \o <<Space, Comma>> \o TxtMainGenre
          \o <<Comma>> \o TxtCarb \o <<Comma, ChX>>,
      TxtName \o <<Comma>> \o TxtMainGenre,
      Fields3(TxtMainGenre, TxtName, TxtCarb) }

RowRice == Fields3(<<ChA>>, Washoku, Rice)
RowDessert == Fields3(<<ChB>>, Dessert, Either)
RowNoodle == Fields3(<<Quote, ChA, Comma, ChB, Quote>>, Chuka, <<Space>> \o Noodle)
RowEither == Fields3(<<ChB>>, Yoshoku, Either)

PoolValidRows == { RowDessert, RowNoodle }

\* A wrong genre; a missing carb; nothing but the name.
RowBadGenre == Fields3(<<ChA>>, <<ChX>>, Rice)
PoolInvalidRows == { RowBadGenre, <<ChB, Comma>> \o Washoku, <<ChA>> }

\* No name before a wrong genre and no carb; a blank name before valid
\* fields.
RowNoName == Fields3(<<Space>>, Washoku, Rice)
PoolEmptyNameRows == { <<Comma, ChX>>, RowNoName }

PoolBlankLines == { <<Space>> }

LinePool ==
    PoolHeaders \cup PoolValidRows \cup PoolInvalidRows
        \cup PoolEmptyNameRows \cup PoolBlankLines

LineEndings == { <<LF>>, <<CR, LF>> }

\* The catalog texts given to the parser alone: up to MaxLines lines of the
\* pool, joined by one of the two line endings.
Catalogs ==
    { Join(ls, eol) :
        ls \in UNION { [1 .. n -> LinePool] : n \in 0 .. MaxLines },
        eol \in LineEndings }

\* The catalog texts the application is loaded from: the plain header and up
\* to MaxRows rows.
AppRows ==
    { RowRice, RowDessert, RowNoodle, RowEither, RowBadGenre, RowNoName,
      <<Space>> }

AppCatalogs ==
    { Join(<<PlainHeader>> \o rows, <<LF>>) :
        rows \in UNION { [1 .. n -> AppRows] : n \in 0 .. MaxRows } }

\* The single lines given to parseCSVLine: every text of at most MaxLineLen
\* code units over a letter, the comma and the quote.
LineAlphabet == { ChA, Comma, Quote }
LineInputs == UNION { [1 .. n -> LineAlphabet] : n \in 0 .. MaxLineLen }

\* ------------------------------------------------------------------ decision.ts

NoFilter == [mode |-> "null", mainGenre |-> Undefined, carb |-> Undefined]

GenreFilter(g) == [mode |-> "genre", mainGenre |-> g, carb |-> Undefined]
CarbFilter(c) == [mode |-> "carb", mainGenre |-> Undefined, carb |-> c]
DessertFilter == [mode |-> "dessert", mainGenre |-> Undefined, carb |-> Undefined]
RandomFilter == [mode |-> "random", mainGenre |-> Undefined, carb |-> Undefined]

\* The filters of the buttons of Controls.
ButtonFilters ==
    { GenreFilter(Washoku), GenreFilter(Yoshoku), GenreFilter(Chuka),
      GenreFilter(Sonota), DessertFilter, CarbFilter(Rice), CarbFilter(Noodle),
      RandomFilter }

\* The four shapes of a filter: the buttons' and the genre filter of Dessert.
WellFormedFilters == ButtonFilters \cup { GenreFilter(Dessert) }

\* Filter values of none of the four shapes: a genre filter without its
\* genre, a carb filter without its carb, a mode that is none of the four.
IllFormedFilters ==
    { GenreFilter(Undefined), CarbFilter(Undefined),
      [mode |-> "bogus", mainGenre |-> Undefined, carb |-> Undefined] }

Filters == WellFormedFilters \cup IllFormedFilters

\* Keeps without the exclusion of Dessert from the carb branch.
KeepsCarbOnly(f, m) ==
    IF f.mode = "random" THEN m.mainGenre # Dessert
    ELSE IF f.mode = "carb" THEN m.carb = f.carb \/ m.carb = Either
    ELSE IF f.mode = "genre" THEN m.mainGenre = f.mainGenre
    ELSE m.mainGenre = Dessert

\* The arrow function each branch of getCandidates filters with.
Keeps(f, m) ==
    IF f.mode = "random" THEN m.mainGenre # Dessert
    ELSE IF f.mode = "carb"
    THEN m.mainGenre # Dessert /\ (m.carb = f.carb \/ m.carb = Either)
    ELSE IF f.mode = "genre" THEN m.mainGenre = f.mainGenre
    ELSE m.mainGenre = Dessert

\* ms.filter((m) => ...), in the order of ms.
RECURSIVE FilterMenus(_, _)
FilterMenus(ms, f) ==
    IF ms = <<>> THEN <<>>
    ELSE (IF Keeps(f, Head(ms)) THEN <<Head(ms)>> ELSE <<>>)
             \o FilterMenus(Tail(ms), f)

\* getCandidates: the list returned, or threw for the Error of the default
\* branch.
getCandidates(ms, f) ==
    IF f.mode = "random" THEN [threw |-> FALSE, list |-> FilterMenus(ms, f)]
    ELSE IF f.mode = "carb"
    THEN IF IsFalsy(f.carb)
         THEN [threw |-> FALSE, list |-> <<>>]
         ELSE [threw |-> FALSE, list |-> FilterMenus(ms, f)]
    ELSE IF f.mode = "genre"
    THEN IF IsFalsy(f.mainGenre)
         THEN [threw |-> FALSE, list |-> <<>>]
         ELSE [threw |-> FALSE, list |-> FilterMenus(ms, f)]
    ELSE IF f.mode = "dessert"
    THEN [threw |-> FALSE, list |-> FilterMenus(ms, f)]
    ELSE [threw |-> TRUE, list |-> <<>>]

\* RandomIndex rounding to the nearest index instead of down.
RandomIndexRounded(r, n) == (2 * r * n + RandRes) \div (2 * RandRes)

\* Math.floor(Math.random() * n), with Math.random() the value r / RandRes
\* of [0, 1).
RandomIndex(r, n) == (r * n) \div RandRes

\* pickOne, drawing r.
pickOne(candidates, r) ==
    IF Len(candidates) = 0 THEN NoMenu
    ELSE LET idx == RandomIndex(r, Len(candidates))
         IN  IF idx < Len(candidates) THEN candidates[idx + 1]
             ELSE UndefinedMenu

\* decideNext leaving the previous pick out of the candidates.
DropId(ms, id) == SelectSeq(ms, LAMBDA m : m.id # id)
decideNextExcludingPrev(ms, f, prevId, r) ==
    LET c == getCandidates(ms, f)
        rest == DropId(c.list, prevId)
    IN  IF c.threw
        THEN [threw |-> TRUE, candidates |-> <<>>, result |-> NoMenu,
              candidatesCount |-> 0]
        ELSE [threw |-> FALSE, candidates |-> rest,
              result |-> pickOne(rest, r),
              candidatesCount |-> Len(rest)]

\* decideNext, drawing r; candidates is its local list.
decideNext(ms, f, prevId, r) ==
    LET c == getCandidates(ms, f)
    IN  IF c.threw
        THEN [threw |-> TRUE, candidates |-> <<>>, result |-> NoMenu,
              candidatesCount |-> 0]
        ELSE [threw |-> FALSE, candidates |-> c.list,
              result |-> pickOne(c.list, r),
              candidatesCount |-> Len(c.list)]

\* ------------------------------------------------------------------ state

VARIABLES
    raw,             \* the catalog text given to parseMenusFromCSVText
    pc,              \* where the parse is: start, header, rows, done, failed
    lines,           \* its local lines
    headerIdx,       \* its local headerIdx
    i,               \* the index of its loop over the lines
    menus,           \* its local menus
    errors,          \* its local errors
    outcome,         \* what it returned or threw
    filter,          \* DinnerApp's state.filter
    result,          \* state.result
    candidatesCount, \* state.candidatesCount
    hasDecided,      \* state.hasDecided
    call,            \* the last call of decideNext: arguments and outcome
    handler,         \* the handleReroll of the last render: what it closed over
    line,            \* the line given to parseCSVLine
    fields           \* what parseCSVLine returned for it

parseVars == <<raw, pc, lines, headerIdx, i, menus, errors, outcome>>
appVars == <<filter, result, candidatesCount, hasDecided, call, handler>>
lineVars == <<line, fields>>
vars == <<parseVars, appVars, lineVars>>

NoOutcome == [kind |-> "none", menus |-> <<>>, errors |-> <<>>, header |-> <<>>]

NoCall ==
    [made |-> FALSE, filter |-> NoFilter, prevId |-> Undefined,
     threw |-> FALSE, candidates |-> <<>>, result |-> NoMenu,
     candidatesCount |-> 0]

ParseIdle(text) ==
    /\ raw = text
    /\ pc = "start"
    /\ lines = <<>>
    /\ headerIdx = -1
    /\ i = 0
    /\ menus = <<>>
    /\ errors = <<>>
    /\ outcome = NoOutcome

\* state.result?.id
ResultId(res) == IF res = NoMenu THEN Undefined ELSE res.id

\* The dependency list of handleReroll with only the id of the result.
RerollDepsResultOnly(f, res) == <<ResultId(res)>>

\* The dependency list of handleReroll; menus, a prop of the page, is the
\* same value at every render.
RerollDeps(f, res) == <<f, ResultId(res)>>

\* The handleReroll created at a render with state.filter f and state.result
\* res: the values its body reads from that render, and its dependencies.
Closure(f, res) ==
    [filter |-> f, prevId |-> ResultId(res), deps |-> RerollDeps(f, res)]

\* useCallback at a render: the handler of the render before is kept while
\* the dependencies are the same, else the one of this render replaces it.
useCallback(h, f, res) ==
    IF h.deps = RerollDeps(f, res) THEN h ELSE Closure(f, res)

\* The state object of DinnerApp.
State ==
    [filter |-> filter, result |-> result,
     candidatesCount |-> candidatesCount, hasDecided |-> hasDecided]

\* The body of the handleReroll h run on the state st with the draw r: the
\* early return without a filter, else decideNext with the filter and the id
\* h closed over, and the updater that keeps the rest of the state. An Error
\* of decideNext leaves the state as it was.
handleReroll(ms, h, st, r) ==
    IF h.filter = NoFilter
    THEN [called |-> FALSE, d |-> decideNext(<<>>, RandomFilter, Undefined, 0),
          state |-> st]
    ELSE LET d == decideNext(ms, h.filter, h.prevId, r)
         IN  [called |-> TRUE, d |-> d,
              state |-> IF d.threw
                        THEN st
                        ELSE [st EXCEPT !.result = d.result,
                                        !.candidatesCount = d.candidatesCount]]

AppIdle ==
    /\ filter = NoFilter
    /\ result = NoMenu
    /\ candidatesCount = 0
    /\ hasDecided = FALSE
    /\ call = NoCall
    /\ handler = Closure(NoFilter, NoMenu)

Init ==
    /\ \E text \in AppCatalogs : ParseIdle(text)
    /\ AppIdle
    /\ line = <<>>
    /\ fields = <<>>

\* ------------------------------------------------------------------ parseMenusFromCSVText

\* NewMenu deriving the id from the name and the row's index.
NewMenuByRow(name, mainGenre, carb) ==
    [id |-> stableId(name \o <<48 + i>>, mainGenre, carb),
     name |-> name, mainGenre |-> mainGenre, carb |-> carb]

\* The record pushed for a valid row.
NewMenu(name, mainGenre, carb) ==
    [id |-> stableId(name, mainGenre, carb),
     name |-> name, mainGenre |-> mainGenre, carb |-> carb]

\* lines 100-105: split, find the header line, fail when there is none.
FindHeader ==
    /\ pc = "start"
    /\ lines' = SplitLines(raw)
    /\ headerIdx' = FindNonBlank(lines', 0)
    /\ IF headerIdx' = -1
       THEN /\ pc' = "failed"
            /\ outcome' = [NoOutcome EXCEPT !.kind = "empty"]
       ELSE /\ pc' = "header"
            /\ outcome' = outcome
    /\ UNCHANGED <<raw, i, menus, errors, appVars, lineVars>>

\* lines 107-116: the header must start with the three expected names.
CheckHeader ==
    /\ pc = "header"
    /\ LET header == MapTrim(parseCSVLine(lines[headerIdx + 1]))
       IN  IF HeaderMismatch(header)
           THEN /\ pc' = "failed"
                /\ outcome' = [NoOutcome EXCEPT !.kind = "header",
                                                !.header = header]
                /\ i' = i
           ELSE /\ pc' = "rows"
                /\ outcome' = outcome
                /\ i' = headerIdx + 1
    /\ UNCHANGED <<raw, lines, headerIdx, menus, errors, appVars, lineVars>>

InLoop == pc = "rows" /\ i < Len(lines)

CurCols == MapTrim(parseCSVLine(lines[i + 1]))

\* line 124: a blank line is passed over.
SkipBlankLine ==
    /\ InLoop
    /\ Trim(lines[i + 1]) = <<>>
    /\ i' = i + 1
    /\ UNCHANGED <<raw, pc, lines, headerIdx, menus, errors, outcome,
                   appVars, lineVars>>

\* line 128: a row without a name is passed over.
SkipEmptyName ==
    /\ InLoop
    /\ Trim(lines[i + 1]) # <<>>
    /\ IsFalsy(Col(CurCols, 0))
    /\ i' = i + 1
    /\ UNCHANGED <<raw, pc, lines, headerIdx, menus, errors, outcome,
                   appVars, lineVars>>

\* lines 130-141: a row with violations adds one entry to errors.
RejectRow ==
    /\ InLoop
    /\ Trim(lines[i + 1]) # <<>>
    /\ ~ IsFalsy(Col(CurCols, 0))
    /\ LET rowNum == i + 1
           rowErrors == RowErrors(Col(CurCols, 1), Col(CurCols, 2))
       IN  /\ Len(rowErrors) > 0
           /\ errors' = Append(errors, [row |-> rowNum, violations |-> rowErrors])
    /\ i' = i + 1
    /\ UNCHANGED <<raw, pc, lines, headerIdx, menus, outcome, appVars,
                   lineVars>>

\* EmitRow putting the record in front.
EmitRowInFront ==
    /\ pc = "rows" /\ i < Len(lines)
    /\ Trim(lines[i + 1]) # <<>>
    /\ ~ IsFalsy(Col(MapTrim(parseCSVLine(lines[i + 1])), 0))
    /\ LET cols == MapTrim(parseCSVLine(lines[i + 1]))
       IN  /\ Len(RowErrors(Col(cols, 1), Col(cols, 2))) = 0
           /\ menus' = <<NewMenu(Col(cols, 0), Col(cols, 1), Col(cols, 2))>>
                           \o menus
    /\ i' = i + 1
    /\ UNCHANGED <<raw, pc, lines, headerIdx, errors, outcome, appVars,
                   lineVars>>

\* lines 143-148: a valid row adds its record to menus.
EmitRow ==
    /\ InLoop
    /\ Trim(lines[i + 1]) # <<>>
    /\ ~ IsFalsy(Col(CurCols, 0))
    /\ Len(RowErrors(Col(CurCols, 1), Col(CurCols, 2))) = 0
    /\ menus' = Append(menus,
                       NewMenu(Col(CurCols, 0), Col(CurCols, 1), Col(CurCols, 2)))
    /\ i' = i + 1
    /\ UNCHANGED <<raw, pc, lines, headerIdx, errors, outcome, appVars,
                   lineVars>>

\* lines 151-153: after the loop, any error makes the parse throw.
ThrowValidation ==
    /\ pc = "rows"
    /\ i >= Len(lines)
    /\ Len(errors) > 0
    /\ pc' = "failed"
    /\ outcome' = [NoOutcome EXCEPT !.kind = "validation", !.errors = errors]
    /\ UNCHANGED <<raw, lines, headerIdx, i, menus, errors, appVars, lineVars>>

\* line 155: otherwise it returns menus.
ReturnMenus ==
    /\ pc = "rows"
    /\ i >= Len(lines)
    /\ Len(errors) = 0
    /\ pc' = "done"
    /\ outcome' = [NoOutcome EXCEPT !.kind = "ok", !.menus = menus]
    /\ UNCHANGED <<raw, lines, headerIdx, i, menus, errors, appVars, lineVars>>

\* ------------------------------------------------------------------ DinnerApp

\* handleSelect(f): decideNext on the loaded menus, then the whole state is
\* set and the component renders again; an Error of decideNext leaves the
\* state as it was.
Select(f, r) ==
    /\ pc = "done"
    /\ LET d == decideNext(outcome.menus, f, Undefined, r)
       IN  /\ call' = [made |-> TRUE, filter |-> f, prevId |-> Undefined,
                       threw |-> d.threw, candidates |-> d.candidates,
                       result |-> d.result,
                       candidatesCount |-> d.candidatesCount]
           /\ IF d.threw
              THEN UNCHANGED <<filter, result, candidatesCount, hasDecided,
                               handler>>
              ELSE /\ filter' = f
                   /\ result' = d.result
                   /\ candidatesCount' = d.candidatesCount
                   /\ hasDecided' = TRUE
                   /\ handler' = useCallback(handler, f, d.result)
    /\ UNCHANGED <<parseVars, lineVars>>

\* A click on the button that Controls disables while no result is shown:
\* the handleReroll of the last render runs, the state it returns is set and
\* the component renders again.
Reroll(r) ==
    /\ pc = "done"
    /\ result # NoMenu
    /\ LET h == handleReroll(outcome.menus, handler, State, r)
       IN  /\ call' = IF h.called
                      THEN [made |-> TRUE, filter |-> handler.filter,
                            prevId |-> handler.prevId, threw |-> h.d.threw,
                            candidates |-> h.d.candidates,
                            result |-> h.d.result,
                            candidatesCount |-> h.d.candidatesCount]
                      ELSE call
           /\ filter' = h.state.filter
           /\ result' = h.state.result
           /\ candidatesCount' = h.state.candidatesCount
           /\ hasDecided' = h.state.hasDecided
           /\ handler' = useCallback(handler, h.state.filter, h.state.result)
    /\ UNCHANGED <<parseVars, lineVars>>

ParseStep ==
    \/ FindHeader
    \/ CheckHeader
    \/ SkipBlankLine
    \/ SkipEmptyName
    \/ RejectRow
    \/ EmitRow
    \/ ThrowValidation
    \/ ReturnMenus

\* The page: the catalog is parsed, then DinnerApp runs on what was returned.
Next ==
    \/ ParseStep
    \/ \E f \in Filters, r \in 0 .. RandRes - 1 : Select(f, r)
    \/ \E r \in 0 .. RandRes - 1 : Reroll(r)

Spec == Init /\ [][Next]_vars

\* ------------------------------------------------------------------ the parser alone

InitParse ==
    /\ \E text \in Catalogs : ParseIdle(text)
    /\ AppIdle
    /\ line = <<>>
    /\ fields = <<>>

NextParse == ParseStep

SpecParse == InitParse /\ [][NextParse]_vars

\* ------------------------------------------------------------------ parseCSVLine alone

InitLine ==
    /\ ParseIdle(<<>>)
    /\ AppIdle
    /\ line \in LineInputs
    /\ fields = <<>>

\* One call of parseCSVLine.
ParseLine ==
    /\ fields = <<>>
    /\ fields' = parseCSVLine(line)
    /\ UNCHANGED <<line, parseVars, appVars>>

NextLine == ParseLine

SpecLine == InitLine /\ [][NextLine]_vars

\* ------------------------------------------------------------------ claims: the decision engine

\* The predicate each of the four filter shapes stands for.
Satisfies(m, f) ==
    CASE f.mode = "random" -> m.mainGenre # Dessert
      [] f.mode = "carb" ->
             m.mainGenre # Dessert /\ m.carb \in {f.carb, Either}
      [] f.mode = "genre" -> m.mainGenre = f.mainGenre
      [] f.mode = "dessert" -> m.mainGenre = Dessert

\* The records of ms satisfying f, in the order of ms.
Matching(ms, f) == SelectSeq(ms, LAMBDA m : Satisfies(m, f))

Loaded == outcome.menus

\* C1: for every well-formed filter, the candidates of a call of decideNext
\* are exactly the loaded records that satisfy the filter's predicate, none
\* dropped and none added; and the genre filter of Dessert selects what the
\* dessert filter selects.
C1_ExactCandidates ==
    /\ (call.made /\ call.filter \in WellFormedFilters) =>
           /\ ~ call.threw
           /\ call.candidates = Matching(Loaded, call.filter)
    /\ pc = "done" =>
           getCandidates(Loaded, GenreFilter(Dessert))
               = getCandidates(Loaded, DessertFilter)

\* A carb filter has kept a record of the other-than-target carb Either and
\* left out a Dessert record whose carb is Either.
C1_Witness ==
    /\ call.made
    /\ call.filter = CarbFilter(Rice)
    /\ \E k \in 1 .. Len(call.candidates) : call.candidates[k].carb = Either
    /\ \E k \in 1 .. Len(Loaded) :
           Loaded[k].mainGenre = Dessert /\ Loaded[k].carb = Either

\* C2: for every well-formed filter, decideNext does not throw, its
\* candidatesCount is the number of matching records, its result is none
\* exactly when that number is 0 and otherwise is one of the candidates.
C2_PickWithinCandidates ==
    (call.made /\ call.filter \in WellFormedFilters) =>
        /\ ~ call.threw
        /\ call.candidatesCount = Len(Matching(Loaded, call.filter))
        /\ (call.result = NoMenu) <=> (call.candidatesCount = 0)
        /\ call.candidatesCount > 0 =>
               \E k \in 1 .. Len(Matching(Loaded, call.filter)) :
                   call.result = Matching(Loaded, call.filter)[k]

\* The last of two candidates was drawn.
C2_Witness ==
    /\ call.made
    /\ call.candidatesCount = 2
    /\ call.candidates[1] # call.candidates[2]
    /\ call.result = call.candidates[2]

\* The identities a previous pick can have, and none.
PrevIds == {Undefined} \cup { Loaded[k].id : k \in 1 .. Len(Loaded) }

\* What decideNext can return for f and prevId, over every draw.
Outcomes(f, prevId) ==
    { decideNext(Loaded, f, prevId, r) : r \in 0 .. RandRes - 1 }

\* C6: the previous pick's identity does not affect decideNext: for every
\* filter and every two values of prevId the possible returns (count and
\* result) are the same, a candidate whose id is prevId can be returned
\* again, and a reroll has the candidates a select of its filter has.
C6_PrevIdIgnored ==
    /\ pc = "done" =>
           \A f \in WellFormedFilters :
               /\ \A p1, p2 \in PrevIds : Outcomes(f, p1) = Outcomes(f, p2)
               /\ \A k \in 1 .. Len(Matching(Loaded, f)) :
                      \E o \in Outcomes(f, Matching(Loaded, f)[k].id) :
                          o.result = Matching(Loaded, f)[k]
    /\ (call.made /\ call.prevId # Undefined) =>
           /\ call.candidates = Matching(Loaded, call.filter)
           /\ call.candidatesCount = Len(Matching(Loaded, call.filter))

\* A reroll among two different candidates returned the previous pick.
C6_Witness ==
    /\ call.made
    /\ call.prevId # Undefined
    /\ call.candidatesCount = 2
    /\ call.candidates[1].id # call.candidates[2].id
    /\ call.result.id = call.prevId

\* C7: every filter of none of the four shapes makes decideNext fail with
\* an error, never return an empty candidate list.
C7_IllFormedFilterThrows ==
    (call.made /\ call.filter \in IllFormedFilters) => call.threw

\* What holds instead: only a mode that is none of the four throws; a genre
\* or carb filter without its payload gets no candidates and no error.
C7_OnlyUnknownModeThrows ==
    (call.made /\ call.filter \in IllFormedFilters) =>
        IF call.filter.mode \in {"genre", "carb"}
        THEN ~ call.threw /\ call.candidatesCount = 0 /\ call.result = NoMenu
        ELSE call.threw

\* ------------------------------------------------------------------ claims: the parser

\* The physical lines of the input, counted from 1: line n lies between the
\* (n-1)th and the nth line feed, less a carriage return before the latter.
LineFeeds == { p \in 1 .. Len(raw) : raw[p] = LF }
NumLines == Cardinality(LineFeeds) + 1
NthLineFeed(n) ==
    CHOOSE p \in LineFeeds : Cardinality({ q \in LineFeeds : q < p }) = n - 1
PhysLine(n) ==
    LET from == IF n = 1 THEN 1 ELSE NthLineFeed(n - 1) + 1
        upto == IF n = NumLines THEN Len(raw) ELSE NthLineFeed(n) - 1
        last == IF n < NumLines /\ upto >= from /\ raw[upto] = CR
                THEN upto - 1 ELSE upto
    IN  SubSeq(raw, from, last)

RECURSIVE PhysLinesFrom(_)
PhysLinesFrom(n) ==
    IF n > NumLines THEN <<>> ELSE <<PhysLine(n)>> \o PhysLinesFrom(n + 1)

IsBlank(l) == \A k \in 1 .. Len(l) : IsWhiteSpace(l[k])

\* The trimmed fields of every line of ls.
RECURSIVE TrimmedFields(_)
TrimmedFields(ls) ==
    IF ls = <<>> THEN <<>>
    ELSE <<MapTrim(parseCSVLine(Head(ls)))>> \o TrimmedFields(Tail(ls))

\* The field at position k (from 1) of the fields fs, or the empty text.
FieldAt(fs, k) == IF k <= Len(fs) THEN fs[k] ELSE <<>>

GenreNames == { Washoku, Yoshoku, Chuka, Sonota, Dessert }
CarbNames == { Rice, Noodle, Either }

\* The members of a set of numbers in increasing order.
RECURSIVE Sorted(_)
Sorted(S) ==
    IF S = {} THEN <<>>
    ELSE LET least == CHOOSE n \in S : \A q \in S : n <= q
         IN  <<least>> \o Sorted(S \ {least})

\* The input as the catalog format reads it, by physical line number:
\* whether it has a header line and a good one, the data rows with a name
\* (named), those of them with a genre or a carb outside its enum, and the
\* trimmed fields of every line.
CatalogView ==
    LET ls == PhysLinesFrom(1)
        nonBlank == { n \in 1 .. Len(ls) : ~ IsBlank(ls[n]) }
        header == IF nonBlank = {} THEN 0 ELSE Sorted(nonBlank)[1]
        names == MapTrim(parseCSVLine(ls[header]))
        good == /\ header > 0
                /\ FieldAt(names, 1) = TxtName
                /\ FieldAt(names, 2) = TxtMainGenre
                /\ FieldAt(names, 3) = TxtCarb
        fs == IF good THEN TrimmedFields(ls) ELSE <<>>
        data == IF good THEN { n \in nonBlank : n > header } ELSE {}
        named == { n \in data : FieldAt(fs[n], 1) # <<>> }
    IN  [hasHeader |-> header > 0,
         headerGood |-> good,
         header |-> header,
         fields |-> fs,
         nameless |-> data \ named,
         named |-> named,
         badGenre |-> { n \in named : FieldAt(fs[n], 2) \notin GenreNames },
         badCarb |-> { n \in named : FieldAt(fs[n], 3) \notin CarbNames }]

InvalidLines(v) == v.badGenre \cup v.badCarb
ValidLines(v) == v.named \ InvalidLines(v)

Ended == pc \in {"done", "failed"}
Malformed == outcome.kind \in {"empty", "header"}

FieldsNamed(entry) ==
    { entry.violations[k].field : k \in 1 .. Len(entry.violations) }

\* C3: with a valid header and at least one invalid data row the parse
\* fails with the validation error, whose entries are one per invalid row,
\* in source order, each with the row's physical line number and exactly
\* the fields that row violates.
C3_EveryInvalidRowReported ==
    Ended =>
        LET v == CatalogView
        IN  (v.headerGood /\ InvalidLines(v) # {}) =>
                /\ outcome.kind = "validation"
                /\ [k \in 1 .. Len(outcome.errors) |-> outcome.errors[k].row]
                       = Sorted(InvalidLines(v))
                /\ \A k \in 1 .. Len(outcome.errors) :
                       LET e == outcome.errors[k]
                       IN  /\ Len(e.violations) = Cardinality(FieldsNamed(e))
                           /\ FieldsNamed(e)
                                  = (IF e.row \in v.badGenre
                                     THEN {"mainGenre"} ELSE {})
                                    \cup
                                    (IF e.row \in v.badCarb
                                     THEN {"carb"} ELSE {})

\* Two invalid rows were reported, one of them for both of its fields.
C3_Witness ==
    /\ outcome.kind = "validation"
    /\ Len(outcome.errors) = 2
    /\ \E k \in 1 .. 2 : Len(outcome.errors[k].violations) = 2
    /\ \E k \in 1 .. 2 : Len(outcome.errors[k].violations) = 1

\* C4: the parse fails as malformed exactly when the input has no non-blank
\* line or the first three trimmed fields of its first non-blank line are
\* not name, mainGenre, carb; and then no data row has been examined.
C4_MalformedExactly ==
    Ended =>
        LET v == CatalogView
        IN  /\ Malformed <=> ~ v.headerGood
            /\ (outcome.kind = "empty") <=> ~ v.hasHeader
            /\ Malformed => (i = 0 /\ menus = <<>> /\ errors = <<>>)

\* A header after a blank line and with a fourth field was accepted and the
\* row after it examined.
C4_Witness ==
    /\ Ended
    /\ ~ Malformed
    /\ headerIdx >= 1
    /\ Len(parseCSVLine(lines[headerIdx + 1])) > 3
    /\ i > headerIdx + 1

\* C5: a data row whose trimmed name is empty yields no record and no row
\* error whatever its other fields hold, and a catalog with a valid header
\* whose named rows are all valid parses successfully.
C5_EmptyNameRowsSkipped ==
    (Ended /\ ~ Malformed) =>
        LET v == CatalogView
        IN  /\ \A k \in 1 .. Len(errors) : errors[k].row \in v.named
            /\ Len(menus) + Len(errors) = Cardinality(v.named)
            /\ InvalidLines(v) = {} => outcome.kind = "ok"

\* A catalog parsed successfully into a record although a nameless row of
\* it has an invalid genre.
C5_Witness ==
    /\ outcome.kind = "ok"
    /\ Len(outcome.menus) >= 1
    /\ \E n \in CatalogView.nameless :
           FieldAt(CatalogView.fields[n], 2) \notin GenreNames

\* C8: a successful parse returns one record per data row with a name and
\* valid fields, in the order of the rows, each with a non-empty name, a
\* genre of the five and a carb of the three; a failed parse returns no
\* record.
C8_ReturnsValidRowsInOrder ==
    /\ outcome.kind = "ok" =>
           LET v == CatalogView
               rows == Sorted(ValidLines(v))
           IN  /\ Len(outcome.menus) = Len(rows)
               /\ \A k \in 1 .. Len(outcome.menus) :
                      LET m == outcome.menus[k]
                          fs == v.fields[rows[k]]
                      IN  /\ m.name = FieldAt(fs, 1)
                          /\ m.mainGenre = FieldAt(fs, 2)
                          /\ m.carb = FieldAt(fs, 3)
                          /\ m.name # <<>>
                          /\ m.mainGenre \in GenreNames
                          /\ m.carb \in CarbNames
    /\ pc = "failed" => outcome.menus = <<>>
    /\ pc = "done" => outcome.kind = "ok"

\* Two different rows were returned, in their order.
C8_Witness ==
    /\ outcome.kind = "ok"
    /\ Len(outcome.menus) = 2
    /\ outcome.menus[1].name # outcome.menus[2].name

\* The code units of the digits of base 36.
Base36Digits == (48 .. 57) \cup (97 .. 122)

\* C9: the id of a record is a function of its name, genre and carb alone:
\* records with the same three fields have the same id wherever their rows
\* are, the id is the hash of the three fields, and it is always a token of
\* IdWidth base-36 digits.
C9_IdFromContentOnly ==
    Ended => \A k \in 1 .. Len(menus) :
        /\ menus[k].id = stableId(menus[k].name, menus[k].mainGenre, menus[k].carb)
        /\ Len(menus[k].id) = 11
        /\ \A d \in 1 .. Len(menus[k].id) : menus[k].id[d] \in Base36Digits
        /\ \A j \in 1 .. Len(menus) :
               (/\ menus[j].name = menus[k].name
                /\ menus[j].mainGenre = menus[k].mainGenre
                /\ menus[j].carb = menus[k].carb) => menus[j].id = menus[k].id

\* Two rows with the same three fields became two records with one id.
C9_Witness ==
    /\ Len(menus) = 2
    /\ menus[1].name = menus[2].name
    /\ menus[1].mainGenre = menus[2].mainGenre
    /\ menus[1].carb = menus[2].carb
    /\ menus[1].id = menus[2].id

\* ------------------------------------------------------------------ claims: parseCSVLine

\* The commas of a line that lie outside its double-quoted fields. A quoted
\* field opens with a quote at the start of a field and closes with the
\* next quote that is not doubled; where is "start" at the start of a field,
\* "quoted" inside a quoted field and "bare" elsewhere.
RECURSIVE SeparatorCommas(_, _, _)
SeparatorCommas(l, k, where) ==
    IF k > Len(l) THEN 0
    ELSE IF where = "quoted"
         THEN IF l[k] # Quote THEN SeparatorCommas(l, k + 1, "quoted")
              ELSE IF k < Len(l) /\ l[k + 1] = Quote
                   THEN SeparatorCommas(l, k + 2, "quoted")
                   ELSE SeparatorCommas(l, k + 1, "bare")
    ELSE IF l[k] = Comma THEN 1 + SeparatorCommas(l, k + 1, "start")
    ELSE IF l[k] = Quote /\ where = "start"
         THEN SeparatorCommas(l, k + 1, "quoted")
    ELSE SeparatorCommas(l, k + 1, "bare")

\* The content of a quoted field with each doubled quote made one; ok is
\* false when a quote of it stands alone.
RECURSIVE Unescaped(_)
Unescaped(t) ==
    IF t = <<>> THEN [ok |-> TRUE, value |-> <<>>]
    ELSE IF t[1] # Quote
         THEN LET r == Unescaped(Tail(t))
              IN  [ok |-> r.ok, value |-> <<t[1]>> \o r.value]
    ELSE IF Len(t) >= 2 /\ t[2] = Quote
         THEN LET r == Unescaped(SubSeq(t, 3, Len(t)))
              IN  [ok |-> r.ok, value |-> <<Quote>> \o r.value]
    ELSE [ok |-> FALSE, value |-> <<>>]

\* The line is one quoted field from its first to its last code unit.
OneQuotedField(l) ==
    /\ Len(l) >= 2
    /\ l[1] = Quote
    /\ l[Len(l)] = Quote
    /\ Unescaped(SubSeq(l, 2, Len(l) - 1)).ok

\* C10: parseCSVLine returns one field per comma-separated position, that
\* is one more field than the line has commas outside its quoted fields,
\* and the value of a quoted field is its content with each doubled quote
\* made one and its commas kept.
C10_OneFieldPerPosition ==
    fields # <<>> =>
        /\ Len(fields) = 1 + SeparatorCommas(line, 1, "start")
        /\ OneQuotedField(line) =>
               fields[1] = Unescaped(SubSeq(line, 2, Len(line) - 1)).value

\* What the code does where the claim fails: a line that ends with the
\* closing quote of a quoted field (or within such a field) gets one more,
\* empty, field.
C10_ValueOfQuotedField ==
    (fields # <<>> /\ OneQuotedField(line)) =>
        /\ fields[1] = Unescaped(SubSeq(line, 2, Len(line) - 1)).value
        /\ fields = <<fields[1], <<>> >>

\* ------------------------------------------------------------------ claims: DinnerApp

\* The candidates of f among the records the page loaded.
CandidatesOf(f) == getCandidates(Loaded, f).list

\* C11: in every state DinnerApp reaches by selects and rerolls, once
\* hasDecided is true the filter is set, candidatesCount is the number of
\* candidates of the current filter, and result is none exactly when that
\* number is 0 and otherwise one of those candidates; the reroll handler of
\* the current render, on any draw, returns a state with the same filter and
\* hasDecided, and with no filter selected it calls nothing and returns the
\* state as it is; and right after a reroll the call it made was for the
\* filter of the state.
C11_StateMatchesFilter ==
    /\ hasDecided =>
           /\ filter # NoFilter
           /\ candidatesCount = Len(CandidatesOf(filter))
           /\ filter \in WellFormedFilters =>
                  candidatesCount = Len(Matching(Loaded, filter))
           /\ (result = NoMenu) <=> (candidatesCount = 0)
           /\ result # NoMenu =>
                  \E k \in 1 .. Len(CandidatesOf(filter)) :
                      result = CandidatesOf(filter)[k]
    /\ pc = "done" =>
           \A r \in 0 .. RandRes - 1 :
               LET h == handleReroll(Loaded, handler, State, r)
               IN  /\ h.state.filter = filter
                   /\ h.state.hasDecided = hasDecided
                   /\ filter = NoFilter => (~ h.called /\ h.state = State)
    /\ (call.made /\ call.prevId # Undefined) =>
           /\ call.filter = filter
           /\ hasDecided
           /\ ~ call.threw =>
                  /\ result = call.result
                  /\ candidatesCount = call.candidatesCount

\* A reroll under a carb filter drew the other of two candidates than the
\* one shown before, and the filter and hasDecided are as the select left
\* them.
C11_Witness ==
    /\ hasDecided
    /\ call.made
    /\ call.prevId # Undefined
    /\ filter = CarbFilter(Rice)
    /\ candidatesCount = 2
    /\ result # NoMenu
    /\ result.id # call.prevId

====
